---- MODULE Spec2Model ----
(***************************************************************************)
(* autograde/__main__.py: the `test` and `summary` sub commands.          *)
(*                                                                         *)
(* main() dispatches args.func; a run is one of the two commands.  The    *)
(* `test` run resolves the notebooks and runs one container per notebook  *)
(* inside reduce(max, map(run, notebooks)).  The `summary` run extracts   *)
(* the records of the result archives, checks the max scores, builds the  *)
(* table, writes summary.csv and plots score_distribution.png.            *)
(*                                                                         *)
(* Optional values (an unset return value, a file not written yet, an     *)
(* archive without the member, reduce's missing accumulator) are          *)
(* sequences of length 0 or 1.                                             *)
(* A file name is a sequence of text pieces ("a" ".ipynb"), a path is a   *)
(* sequence of file names (Path.parts).                                    *)
(***************************************************************************)
EXTENDS Integers, Sequences, FiniteSets

VARIABLES
    cmd,        \* args.func: "test" or "summary"
    pc,         \* position of the running command
    err,        \* the exception that ended the run, or "none"
    ret,        \* << >> or <<value returned by the command>>
    nbk,        \* test: what args.notebook names on disk
    notebooks,  \* test: the resolved list of notebooks
    issued,     \* test: notebooks a container was started for, in order
    alive,      \* test: number of container processes started and not exited
    codes,      \* test: return codes of the exited containers, in order
    acc,        \* test: reduce's accumulator, << >> before the first item
    archives,   \* summary: the archives root.rglob yields, in its order
    idx,        \* summary: number of archives the extract loop has visited
    results,    \* summary: the records appended so far
    warnings,   \* summary: archive names logged as lacking the member
    max_score,  \* summary: << >> or <<the one max score>>
    df,         \* summary: the data frame, [columns, rows]
    csv,        \* summary: << >> or <<content of summary.csv>>
    png         \* summary: << >> or <<data of score_distribution.png>>

vars == <<cmd, pc, err, ret, nbk, notebooks, issued, alive, codes, acc,
          archives, idx, results, warnings, max_score, df, csv, png>>

testVars == <<nbk, notebooks, issued, alive, codes, acc>>
summaryVars == <<archives, idx, results, warnings, max_score, df, csv, png>>

----------------------------------------------------------------------------
(* Bounds of the model *)

MaxFiles == 3       \* files below the notebook directory
MaxArchives == 2    \* result archives below the summary root

----------------------------------------------------------------------------
(* Generic helpers *)

Range(s) == {s[i] : i \in DOMAIN s}

Last(s) == s[Len(s)]

\* every order in which the elements of a finite set can be enumerated
Orders(S) ==
    {f \in [1..Cardinality(S) -> S] : \A i, j \in 1..Cardinality(S) : f[i] = f[j] => i = j}

maxOf(a, b) == IF a >= b THEN a ELSE b

----------------------------------------------------------------------------
(* test: the inputs *)

\* return codes subprocess.run can report: -9 is a child killed by SIGKILL
ExitCodes == {-9, 0, 1, 2}

\* the directory name '.ipynb_checkpoints'
CHECKPOINTS == <<".ipynb", "_checkpoints">>

NbA == <<"a", ".ipynb">>
NbB == <<"b", ".ipynb">>
Sub == <<"sub">>

\* candidate files below the notebook directory, relative to it
TreePaths ==
    { <<NbA>>,                                        \* a.ipynb
      <<Sub, NbB>>,                                   \* sub/b.ipynb
      <<CHECKPOINTS, NbA>>,                           \* .ipynb_checkpoints/a.ipynb
      <<CHECKPOINTS, Sub, NbB>>,                      \* .ipynb_checkpoints/sub/b.ipynb
      <<<<"notes", ".txt">>>>,                        \* notes.txt
      <<<<"my", ".ipynb", "_checkpoints">>, NbB>>,    \* my.ipynb_checkpoints/b.ipynb
      <<<<"d", ".ipynb">>, NbA>> }                    \* d.ipynb/a.ipynb

\* absolute paths args.notebook may resolve to when it is a directory
DirPaths ==
    { << <<"/">>, <<"hw">> >>,                        \* /hw
      << <<"/">>, CHECKPOINTS, <<"hw">> >> }          \* /.ipynb_checkpoints/hw

\* absolute paths args.notebook may resolve to when it is a regular file
FilePaths ==
    { << <<"/">>, <<"hw">>, NbA >>,
      << <<"/">>, <<"hw">>, CHECKPOINTS, NbA >>,
      << <<"/">>, <<"hw">>, <<"notes", ".txt">> >> }

NbkInputs ==
    {[kind |-> "none", path |-> << <<"/">>, <<"gone">> >>, tree |-> {}]}
    \cup {[kind |-> "file", path |-> p, tree |-> {}] : p \in FilePaths}
    \cup {[kind |-> "dir", path |-> d, tree |-> t] :
            d \in DirPaths, t \in {s \in SUBSET TreePaths : Cardinality(s) <= MaxFiles}}

NoNbk == [kind |-> "none", path |-> << >>, tree |-> {}]

----------------------------------------------------------------------------
(* test: path resolution, lines 43-50 *)

\* the files and directories below a directory holding the files `tree`
Entries(tree) == UNION {{SubSeq(p, 1, k) : k \in 1..Len(p)} : p \in tree}

\* fnmatch of a file name against '*.ipynb'
match_ipynb(name) == name # << >> /\ Last(name) = ".ipynb"

\* path_nbk.rglob('*.ipynb'): the set of paths it yields
rglob(base, tree) == {base \o e : e \in {x \in Entries(tree) : match_ipynb(Last(x))}}

\* mutant: only the directory holding the notebook is compared with the marker
not_checkpoint_parent_only(p) == Len(p) < 2 \/ p[Len(p) - 1] # CHECKPOINTS

\* lambda p: '.ipynb_checkpoints' not in p.parts
not_checkpoint(p) == CHECKPOINTS \notin Range(p)

\* the lists `notebooks` can be bound to; rglob's order is the file system's
resolve(n) ==
    IF n.kind = "file"
    THEN {<<n.path>>}
    ELSE Orders({p \in rglob(n.path, n.tree) : not_checkpoint(p)})

----------------------------------------------------------------------------
(* test: reduce(max, map(run, notebooks)), line 68 *)

\* one step of reduce without initial value: the first item becomes the accumulator
reduce_step(a, x) == IF a = << >> THEN <<x>> ELSE <<maxOf(a[1], x)>>

\* mutant: reduce(max, ..., 0), an initial value of 0
reduce_result_initial_zero(a) ==
    IF a = << >> THEN [err |-> "none", ret |-> <<0>>] ELSE [err |-> "none", ret |-> a]

\* the outcome of reduce once map is exhausted: an empty sequence raises TypeError
reduce_result(a) ==
    IF a = << >> THEN [err |-> "TypeError", ret |-> << >>] ELSE [err |-> "none", ret |-> a]

----------------------------------------------------------------------------
(* test: the steps of the command *)

\* lines 38-41: the assertions on the paths
TestValidate ==
    /\ cmd = "test" /\ pc = "start"
    /\ IF nbk.kind \in {"file", "dir"}
       THEN pc' = "resolve" /\ err' = err
       ELSE pc' = "failed" /\ err' = "AssertionError"
    /\ UNCHANGED <<cmd, ret, testVars, summaryVars>>

\* lines 43-50
TestResolve ==
    /\ cmd = "test" /\ pc = "resolve"
    /\ notebooks' \in resolve(nbk)
    /\ pc' = "reduce"
    /\ UNCHANGED <<cmd, err, ret, nbk, issued, alive, codes, acc, summaryVars>>

\* map calls run on the next notebook: subprocess.run starts the container
TestRunStart ==
    /\ cmd = "test" /\ pc = "reduce"
    /\ Len(issued) < Len(notebooks)
    /\ issued' = Append(issued, notebooks[Len(issued) + 1])
    /\ alive' = alive + 1
    /\ pc' = "run"
    /\ UNCHANGED <<cmd, err, ret, nbk, notebooks, codes, acc, summaryVars>>

\* the container exits, subprocess.run returns, reduce folds the return code
TestRunExit ==
    /\ cmd = "test" /\ pc = "run"
    /\ \E code \in ExitCodes :
          /\ codes' = Append(codes, code)
          /\ acc' = reduce_step(acc, code)
    /\ alive' = alive - 1
    /\ pc' = "reduce"
    /\ UNCHANGED <<cmd, err, ret, nbk, notebooks, issued, summaryVars>>

\* map is exhausted: reduce returns or raises, test returns
TestReturn ==
    /\ cmd = "test" /\ pc = "reduce"
    /\ Len(issued) = Len(notebooks)
    /\ err' = reduce_result(acc).err
    /\ ret' = reduce_result(acc).ret
    /\ pc' = IF reduce_result(acc).err = "none" THEN "done" ELSE "failed"
    /\ UNCHANGED <<cmd, testVars, summaryVars>>

----------------------------------------------------------------------------
(* summary: the inputs *)

Ann == [student_id |-> 1, last_name |-> "Doe", first_name |-> "Ann"]
Bob == [student_id |-> 2, last_name |-> "Roe", first_name |-> "Bob"]

\* team_members lists of a record
Teams == { << >>, <<Ann>>, <<Bob>>, <<Ann, Bob>>, <<Ann, Ann>> }

\* summary objects of a record
Summaries == [score : {7, 9}, score_max : {10, 20}]

\* what an archive holds: no test_results.json, or the record in it
Contents == {<< >>} \cup {<<[summary |-> s, team_members |-> t]>> : s \in Summaries, t \in Teams}

\* path.name of the archives, in the order rglob yields them
ArchiveNames ==
    <<"results_1.tar.xz", "results_2.tar.xz", "results_3.tar.xz", "results_4.tar.xz">>

ArchiveLists ==
    UNION {{[i \in 1..n |-> [name |-> ArchiveNames[i], member |-> c[i]]] :
               c \in [1..n -> Contents]} : n \in 0..MaxArchives}

----------------------------------------------------------------------------
(* summary: the data frame operations used by lines 96-117 *)

header == <<"student_id", "last_name", "first_name", "score", "max_score", "result_file">>

EmptyFrame == [columns |-> << >>, rows |-> << >>]

ColIdx(columns, name) == CHOOSE k \in DOMAIN columns : columns[k] = name

\* frame[name]: the values of a column, by row position
Column(frame, name) ==
    [i \in DOMAIN frame.rows |-> frame.rows[i][ColIdx(frame.columns, name)]]

\* the rows one record yields, one per team member
member_rows(r, ms) ==
    [k \in DOMAIN r.team_members |->
        << r.team_members[k].student_id, r.team_members[k].last_name,
           r.team_members[k].first_name, r.summary.score, ms, r.result_file >>]

\* mutant: a record yields a row for its first team member only
RECURSIVE row_factory_first_member(_, _)
row_factory_first_member(rs, ms) ==
    IF rs = << >> THEN << >>
    ELSE (IF Head(rs).team_members = << >> THEN << >> ELSE <<member_rows(Head(rs), ms)[1]>>)
         \o row_factory_first_member(Tail(rs), ms)

\* row_factory(): the rows in generation order
RECURSIVE row_factory(_, _)
row_factory(rs, ms) ==
    IF rs = << >> THEN << >>
    ELSE member_rows(Head(rs), ms) \o row_factory(Tail(rs), ms)

MinOf(S) == CHOOSE m \in S : \A x \in S : m <= x

\* the orders of the rows `among` that are non-decreasing in column k
RECURSIVE sorted_orders(_, _, _)
sorted_orders(rows, k, among) ==
    IF among = {} THEN {<< >>}
    ELSE LET least == MinOf({rows[i][k] : i \in among})
         IN  UNION {{<<rows[i]>> \o t : t \in sorted_orders(rows, k, among \ {i})} :
                       i \in {j \in among : rows[j][k] = least}}

\* mutant: the frame is left in generation order
sort_values_unsorted(frame, by) == {frame}

\* frame.sort_values(by=...): quicksort is not stable, ties come in any order
sort_values(frame, by) ==
    {[columns |-> frame.columns, rows |-> o] :
        o \in sorted_orders(frame.rows, ColIdx(frame.columns, by), DOMAIN frame.rows)}

\* mutant: keep='first' where keep=False is meant
duplicated_keep_false_as_first(col) ==
    [i \in DOMAIN col |-> \E j \in 1..(i - 1) : col[j] = col[i]]

\* series.duplicated(keep=False): every occurrence of a repeated value is marked
duplicated_keep_false(col) ==
    [i \in DOMAIN col |-> \E j \in DOMAIN col : j # i /\ col[j] = col[i]]

\* mutant: keep='last' where keep='first' is meant
duplicated_keep_first_as_last(col) ==
    [i \in DOMAIN col |-> \E j \in (i + 1)..Len(col) : col[j] = col[i]]

\* series.duplicated(keep='first'): every occurrence but the first is marked
duplicated_keep_first(col) ==
    [i \in DOMAIN col |-> \E j \in 1..(i - 1) : col[j] = col[i]]

\* frame[name] = values
with_column(frame, name, values) ==
    [columns |-> Append(frame.columns, name),
     rows |-> [i \in DOMAIN frame.rows |-> Append(frame.rows[i], values[i])]]

RECURSIVE drop_rows(_, _, _)
drop_rows(rows, mask, i) ==
    IF i > Len(rows) THEN << >>
    ELSE (IF mask[i] THEN << >> ELSE <<rows[i]>>) \o drop_rows(rows, mask, i + 1)

\* frame[~mask]
without(frame, mask) == [columns |-> frame.columns, rows |-> drop_rows(frame.rows, mask, 1)]

\* mutant: index=False left out, the row labels are written as a first, unnamed column
to_csv_with_index(frame) ==
    [header |-> <<"">> \o frame.columns,
     rows |-> [i \in DOMAIN frame.rows |-> <<i - 1>> \o frame.rows[i]]]

\* frame.to_csv(path, index=False): the header line and the data lines
to_csv(frame) == [header |-> frame.columns, rows |-> frame.rows]

\* the scores the histogram is drawn from, line 117
hist_scores(frame) ==
    Column(without(frame, duplicated_keep_first(Column(frame, "student_id"))), "score")

----------------------------------------------------------------------------
(* summary: the consistency check, lines 90-93 *)

max_scores(rs) == {rs[i].summary.score_max : i \in DOMAIN rs}

\* mutant: the assertion only asks for some max score
consistent_some(ms) == Cardinality(ms) >= 1

\* assert len(max_scores) == 1
consistent(ms) == Cardinality(ms) = 1

----------------------------------------------------------------------------
(* summary: the steps of the command *)

\* lines 78-88: one iteration of the loop over the archives
SumExtract ==
    /\ cmd = "summary" /\ pc = "start"
    /\ idx < Len(archives)
    /\ LET a == archives[idx + 1]
       IN  IF a.member # << >>
           THEN /\ results' = Append(results,
                       [summary |-> a.member[1].summary,
                        team_members |-> a.member[1].team_members,
                        result_file |-> a.name])
                /\ warnings' = warnings
           ELSE /\ warnings' = Append(warnings, a.name)
                /\ results' = results
    /\ idx' = idx + 1
    /\ UNCHANGED <<cmd, pc, err, ret, testVars, archives, max_score, df, csv, png>>

\* lines 91-93
SumCheck ==
    /\ cmd = "summary" /\ pc = "start"
    /\ idx = Len(archives)
    /\ IF consistent(max_scores(results))
       THEN /\ max_score' \in {<<m>> : m \in max_scores(results)}
            /\ pc' = "table"
            /\ err' = err
       ELSE /\ max_score' = max_score
            /\ pc' = "failed"
            /\ err' = "AssertionError"
    /\ UNCHANGED <<cmd, ret, testVars, archives, idx, results, warnings, df, csv, png>>

\* lines 96-111
SumTable ==
    /\ cmd = "summary" /\ pc = "table"
    /\ \E sorted \in sort_values(
              [columns |-> header, rows |-> row_factory(results, max_score[1])], "score") :
          df' = with_column(sorted, "multiple_submissions",
                            duplicated_keep_false(Column(sorted, "student_id")))
    /\ pc' = "csv"
    /\ UNCHANGED <<cmd, err, ret, testVars, archives, idx, results, warnings, max_score,
                   csv, png>>

\* line 114
SumCsv ==
    /\ cmd = "summary" /\ pc = "csv"
    /\ csv' = <<to_csv(df)>>
    /\ pc' = "plot"
    /\ UNCHANGED <<cmd, err, ret, testVars, archives, idx, results, warnings, max_score,
                   df, png>>

\* lines 117-125
SumPlot ==
    /\ cmd = "summary" /\ pc = "plot"
    /\ png' = <<[scores |-> hist_scores(df), xlabel |-> "score", ylabel |-> "count"]>>
    /\ ret' = <<0>>
    /\ pc' = "done"
    /\ UNCHANGED <<cmd, err, testVars, archives, idx, results, warnings, max_score, df, csv>>

----------------------------------------------------------------------------
(* main: args.func(args) *)

\* A run starts with the arguments parsed.  The paths the commands assert on
\* without using them further (lines 38, 40, 41, 74) exist as required; the
\* notebook path may be a file, a directory or neither (line 39).

Init ==
    /\ cmd \in {"test", "summary"}
    /\ pc = "start"
    /\ err = "none"
    /\ ret = << >>
    /\ nbk \in (IF cmd = "test" THEN NbkInputs ELSE {NoNbk})
    /\ notebooks = << >>
    /\ issued = << >>
    /\ alive = 0
    /\ codes = << >>
    /\ acc = << >>
    /\ archives \in (IF cmd = "summary" THEN ArchiveLists ELSE {<< >>})
    /\ idx = 0
    /\ results = << >>
    /\ warnings = << >>
    /\ max_score = << >>
    /\ df = EmptyFrame
    /\ csv = << >>
    /\ png = << >>

Next ==
    \/ TestValidate
    \/ TestResolve
    \/ TestRunStart
    \/ TestRunExit
    \/ TestReturn
    \/ SumExtract
    \/ SumCheck
    \/ SumTable
    \/ SumCsv
    \/ SumPlot

Spec == Init /\ [][Next]_vars
----------------------------------------------------------------------------
(* Vocabulary of the properties *)

Terminal == pc \in {"done", "failed"}

\* the archives that contain test_results.json
Valid == {i \in DOMAIN archives : archives[i].member # << >>}

\* two successfully parsed records carry different score_max values
Inconsistent ==
    \E i, j \in Valid :
        archives[i].member[1].summary.score_max # archives[j].member[1].summary.score_max

\* total number of team members over the archives that hold a record
RECURSIVE TeamTotal(_)
TeamTotal(as) ==
    IF as = << >> THEN 0
    ELSE (IF Head(as).member = << >> THEN 0 ELSE Len(Head(as).member[1].team_members))
         + TeamTotal(Tail(as))

\* a column of the written summary.csv, by row position
CsvCol(name) ==
    [i \in DOMAIN csv[1].rows |-> csv[1].rows[i][ColIdx(csv[1].header, name)]]

\* number of positions of a sequence holding v
Count(q, v) == Cardinality({i \in DOMAIN q : q[i] = v})

\* the notebooks test is to run: the path itself when it is a file, otherwise every
\* *.ipynb path below the directory with no .ipynb_checkpoints segment
Discoverable ==
    IF nbk.kind = "file" THEN {nbk.path}
    ELSE {q \in {nbk.path \o e : e \in Entries(nbk.tree)} :
            /\ Last(Last(q)) = ".ipynb"
            /\ \A k \in DOMAIN q : q[k] # <<".ipynb", "_checkpoints">>}

----------------------------------------------------------------------------
(* The properties *)

\* C1: when two successfully parsed records carry different score_max values,
\* summary ends in an error and at no point of the run has summary.csv or
\* score_distribution.png been written.
C1_AbortBeforeOutput ==
    (cmd = "summary" /\ Inconsistent) =>
        /\ csv = << >> /\ png = << >>
        /\ pc # "done" /\ ret = << >>
        /\ (idx = Len(archives) /\ pc # "start" => pc = "failed" /\ err = "AssertionError")

C1_Witness ==
    /\ cmd = "summary" /\ Inconsistent
    /\ pc = "failed" /\ err = "AssertionError"
    /\ csv = << >> /\ png = << >>

\* C2: an archive without test_results.json contributes no row and does not
\* abort the run, also when every archive lacks the member: unless the valid
\* records disagree on score_max, summary writes both outputs and returns 0.
C2_MissingMemberDoesNotAbort ==
    (/\ cmd = "summary" /\ Terminal
     /\ \E i \in DOMAIN archives : archives[i].member = << >>
     /\ ~Inconsistent) =>
        /\ pc = "done" /\ ret = <<0>>
        /\ csv # << >> /\ png # << >>
        /\ \A i \in DOMAIN archives :
              archives[i].member = << >> =>
                  archives[i].name \notin Range(CsvCol("result_file"))

\* C3: test returns the maximum return code of the invocations, so a non-zero
\* return code of any sign makes the result of test non-zero.
C3_MaxSoNonZero ==
    (cmd = "test" /\ pc = "done") =>
        /\ ret[1] \in Range(codes)
        /\ \A i \in DOMAIN codes : codes[i] <= ret[1]
        /\ ((\E i \in DOMAIN codes : codes[i] # 0) => ret[1] # 0)

\* C4: in summary.csv, multiple_submissions of a row is true exactly when the
\* row's student_id occurs in another row of the table.
C4_MultipleSubmissions ==
    (csv # << >>) =>
        \A i \in DOMAIN csv[1].rows :
            CsvCol("multiple_submissions")[i]
                = (\E j \in DOMAIN csv[1].rows :
                      j # i /\ CsvCol("student_id")[j] = CsvCol("student_id")[i])

C4_Witness ==
    /\ csv # << >>
    /\ \E i, j \in DOMAIN csv[1].rows :
          /\ CsvCol("multiple_submissions")[i]
          /\ ~CsvCol("multiple_submissions")[j]

\* C5: when the valid records share one score_max, summary.csv is written and
\* its number of rows is the total number of team members of the archives that
\* contain test_results.json.
C5_RowCount ==
    /\ (csv # << >>) => Len(csv[1].rows) = TeamTotal(archives)
    /\ (cmd = "summary" /\ Terminal /\ Valid # {} /\ ~Inconsistent) => csv # << >>

C5_Witness ==
    /\ pc = "done" /\ csv # << >>
    /\ Len(csv[1].rows) = 3
    /\ Cardinality(Valid) = 2
    /\ Count(CsvCol("student_id"), 1) = 2

\* C6: the rows of summary.csv are in non-decreasing order of score, whatever
\* order the archives were found in.
C6_SortedByScore ==
    (csv # << >>) =>
        \A i, j \in DOMAIN csv[1].rows : i < j => CsvCol("score")[i] <= CsvCol("score")[j]

C6_Witness ==
    /\ csv # << >>
    /\ Len(archives) = 2 /\ Valid = {1, 2}
    /\ archives[1].member[1].summary.score > archives[2].member[1].summary.score
    /\ archives[1].member[1].team_members # << >>
    /\ archives[2].member[1].team_members # << >>
    /\ CsvCol("score")[1] < CsvCol("score")[Len(csv[1].rows)]

\* C7: test starts exactly one container per resolved notebook (the path itself
\* when it is a file, otherwise every *.ipynb path below the directory without a
\* .ipynb_checkpoints segment), one at a time, and a non-zero return code does
\* not keep the remaining notebooks from being run.
C7_OnePerNotebookInTurn ==
    (cmd = "test") =>
        /\ alive = Len(issued) - Len(codes)
        /\ alive <= 1
        /\ Range(issued) \subseteq Discoverable
        /\ \A i, j \in DOMAIN issued : issued[i] = issued[j] => i = j
        /\ (Terminal /\ nbk.kind # "none") =>
              /\ Range(issued) = Discoverable
              /\ Len(codes) = Len(issued)

C7_Witness ==
    /\ cmd = "test" /\ Terminal /\ nbk.kind = "dir"
    /\ Len(issued) >= 2
    /\ codes[1] # 0
    /\ \E p \in nbk.tree : <<".ipynb", "_checkpoints">> \in Range(p)
    /\ Range(issued) = Discoverable

\* C8 as stated: the columns of summary.csv are exactly student_id, last_name,
\* first_name, score, max_score, result_file.
C8_SixColumns ==
    (csv # << >>) =>
        csv[1].header
            = <<"student_id", "last_name", "first_name", "score", "max_score", "result_file">>

\* C8 amended: the columns of summary.csv are student_id, last_name, first_name,
\* score, max_score, result_file and multiple_submissions, in that order, and
\* every row has one value per column.
C8_SevenColumns ==
    (csv # << >>) =>
        /\ csv[1].header
              = <<"student_id", "last_name", "first_name", "score", "max_score",
                  "result_file", "multiple_submissions">>
        /\ \A i \in DOMAIN csv[1].rows : Len(csv[1].rows[i]) = 7

C8_Witness ==
    /\ csv # << >>
    /\ Len(csv[1].rows) >= 2
    /\ Len(csv[1].header) = 7

\* C9: the histogram gets one score per distinct student_id of the table, the
\* minimum of that student's scores, while summary.csv keeps every duplicate row.
C9_HistogramMinPerStudent ==
    (png # << >>) =>
        LET ids == CsvCol("student_id")
            sc == CsvCol("score")
            least(s) == MinOf({sc[i] : i \in {j \in DOMAIN ids : ids[j] = s}})
        IN  /\ Len(png[1].scores) = Cardinality(Range(ids))
            /\ \A v \in Range(sc) \cup Range(png[1].scores) :
                  Count(png[1].scores, v) = Cardinality({s \in Range(ids) : least(s) = v})
            /\ Len(csv[1].rows) = TeamTotal(archives)

C9_Witness ==
    /\ png # << >>
    /\ \E i, j \in DOMAIN csv[1].rows :
          /\ CsvCol("student_id")[i] = CsvCol("student_id")[j]
          /\ CsvCol("score")[i] < CsvCol("score")[j]
    /\ Len(png[1].scores) < Len(csv[1].rows)

\* C10: when the notebook argument is a directory in which no notebook is
\* found, test starts no container and ends in an error, it returns no status.
C10_EmptyDiscoveryRaises ==
    (cmd = "test" /\ nbk.kind = "dir" /\ Discoverable = {}) =>
        /\ issued = << >>
        /\ pc # "done" /\ ret = << >>
        /\ (pc = "failed" => err = "TypeError")
        /\ (pc = "reduce" => ENABLED TestReturn)

C10_Witness ==
    /\ cmd = "test" /\ nbk.kind = "dir" /\ Discoverable = {}
    /\ \E p \in nbk.tree : Last(Last(p)) = ".ipynb"
    /\ pc = "failed" /\ err = "TypeError"
    /\ issued = << >>

============================================================================
